---- MODULE Spec2Model ----
(***************************************************************************)
(* express-jobly: the partial-update SQL builder, the dynamic filter-query *)
(* builders of Company and Job, and the record-access methods that embed   *)
(* their output into statements sent to the relational store.             *)
(*                                                                         *)
(* JavaScript values are tagged records (string, number, undefined, null,  *)
(* NaN); a string is the sequence of its characters.  A JavaScript object  *)
(* is the sequence of its own enumerable properties in insertion order.    *)
(* A thrown exception is an outcome record whose error field names the     *)
(* exception class.                                                        *)
(***************************************************************************)
EXTENDS Integers, Sequences, FiniteSets, TLC

\* ------------------------------------------------------------------------
\* Bounds of the model
\* ------------------------------------------------------------------------

\* largest number of properties of a filter criteria object
MaxKeys == 3

\* largest number of entries of an update payload
MaxFields == 2

\* ------------------------------------------------------------------------
\* JavaScript values
\* ------------------------------------------------------------------------

Str(chars) == [t |-> "string", s |-> chars, n |-> 0]

Num(k) == [t |-> "number", s |-> <<>>, n |-> k]

Bool(b) == [t |-> "boolean", s |-> <<>>, n |-> IF b THEN 1 ELSE 0]

Undefined == [t |-> "undefined", s |-> <<>>, n |-> 0]

Null == [t |-> "null", s |-> <<>>, n |-> 0]

\* the number NaN
NaN == [t |-> "NaN", s |-> <<>>, n |-> 0]

DigitChars == <<"0", "1", "2", "3", "4", "5", "6", "7", "8", "9">>

\* the characters of the model's strings, in increasing UTF-16 code unit order
CodeUnitOrder ==
  <<"#", "%", "-", "0", "1", "2", "3", "4", "5", "6", "7", "8", "9",
    "N", "T", "a", "c", "d", "e", "f", "h", "i", "j", "l", "n", "o",
    "r", "s", "t", "u", "w">>

CodeUnit(c) == CHOOSE i \in 1..Len(CodeUnitOrder) : CodeUnitOrder[i] = c

IsDigit(c) == \E i \in 1..10 : DigitChars[i] = c

DigitValue(c) == (CHOOSE i \in 1..10 : DigitChars[i] = c) - 1

\* ToBoolean: undefined, null, NaN, 0, false and "" are falsy
Truthy(v) ==
  CASE v.t = "string" -> v.s # <<>>
    [] v.t = "number" -> v.n # 0
    [] v.t = "boolean" -> v.n = 1
    [] OTHER -> FALSE

RECURSIVE DecimalDigits(_)
DecimalDigits(k) ==
  IF k < 10 THEN <<DigitChars[k + 1]>>
  ELSE DecimalDigits(k \div 10) \o <<DigitChars[(k % 10) + 1]>>

\* ToString(v), as a template literal or parseInt applies it
JsToString(v) ==
  CASE v.t = "string" -> v.s
    [] v.t = "number" -> IF v.n < 0 THEN <<"-">> \o DecimalDigits(0 - v.n)
                         ELSE DecimalDigits(v.n)
    [] v.t = "boolean" -> IF v.n = 1 THEN <<"t", "r", "u", "e">>
                          ELSE <<"f", "a", "l", "s", "e">>
    [] v.t = "undefined" -> <<"u", "n", "d", "e", "f", "i", "n", "e", "d">>
    [] v.t = "null" -> <<"n", "u", "l", "l">>
    [] OTHER -> <<"N", "a", "N">>

RECURSIVE DigitPrefix(_)
DigitPrefix(chars) ==
  IF chars = <<>> \/ ~IsDigit(Head(chars)) THEN <<>>
  ELSE <<Head(chars)>> \o DigitPrefix(Tail(chars))

RECURSIVE DigitsValue(_)
DigitsValue(chars) ==
  IF chars = <<>> THEN 0
  ELSE 10 * DigitsValue(SubSeq(chars, 1, Len(chars) - 1))
         + DigitValue(chars[Len(chars)])

\* parseInt(v): the longest decimal prefix of JsToString(v), NaN when empty
parseInt(v) ==
  LET chars == JsToString(v)
      signed == chars # <<>> /\ Head(chars) = "-"
      body == IF signed THEN Tail(chars) ELSE chars
      digits == DigitPrefix(body)
  IN IF digits = <<>> THEN NaN
     ELSE Num(IF signed THEN 0 - DigitsValue(digits) ELSE DigitsValue(digits))

\* ToNumber, as a relational operator applies it to a non-string pair
ToNumber(v) ==
  CASE v.t = "number" -> v
    [] v.t = "boolean" -> Num(v.n)
    [] v.t = "null" -> Num(0)
    [] v.t = "string" ->
         IF v.s = <<>> THEN Num(0)
         ELSE IF DigitPrefix(v.s) = v.s THEN Num(DigitsValue(v.s))
         ELSE NaN
    [] OTHER -> NaN

\* string < string: by code units, a proper prefix is the smaller
RECURSIVE StringLess(_, _)
StringLess(x, y) ==
  IF y = <<>> THEN FALSE
  ELSE IF x = <<>> THEN TRUE
  ELSE IF Head(x) # Head(y) THEN CodeUnit(Head(x)) < CodeUnit(Head(y))
  ELSE StringLess(Tail(x), Tail(y))

\* the operator a > b: two strings compare as strings, any other pair as
\* numbers, and a comparison with NaN is false
GreaterThan(a, b) ==
  IF a.t = "string" /\ b.t = "string" THEN StringLess(b.s, a.s)
  ELSE LET x == ToNumber(a)
           y == ToNumber(b)
       IN x.t = "number" /\ y.t = "number" /\ x.n > y.n

\* a !== b (NaN differs from every value, itself included)
StrictNotEqual(a, b) == a.t = "NaN" \/ a # b

\* ------------------------------------------------------------------------
\* JavaScript objects and outcomes
\* ------------------------------------------------------------------------

Keys(obj) == [i \in 1..Len(obj) |-> obj[i].k]

HasKey(obj, key) == \E i \in 1..Len(obj) : obj[i].k = key

\* obj[key], undefined when the property is absent
Get(obj, key) ==
  IF HasKey(obj, key)
  THEN obj[CHOOSE i \in 1..Len(obj) : obj[i].k = key].v
  ELSE Undefined

\* Array.prototype.indexOf, zero-based, -1 when absent
indexOf(arr, x) ==
  IF \E i \in 1..Len(arr) : arr[i] = x
  THEN (CHOOSE i \in 1..Len(arr) :
          arr[i] = x /\ \A j \in 1..(i - 1) : arr[j] # x) - 1
  ELSE 0 - 1

Return(value) == [error |-> "none", msg |-> "", value |-> value]

Throw(class, msg) == [error |-> class, msg |-> msg, value |-> Undefined]

\* `text $n`: one pushed fragment of a WHERE clause
Fragment(col, op, ph) == [col |-> col, op |-> op, ph |-> ph]

\* Array.prototype.join: the parts of the joined string and their separator;
\* no parts is the empty string
join(arr, sep) == [sep |-> sep, parts |-> arr]

\* the objects of at most maxLen properties drawn from entries, one value
\* for a key, in every insertion order
ObjectsOver(entries, maxLen) ==
  UNION {{obj \in [1..len -> entries] :
            \A i, j \in 1..len : i # j => obj[i].k # obj[j].k} :
         len \in 0..maxLen}

\* ------------------------------------------------------------------------
\* models/company.js: the company filter
\* ------------------------------------------------------------------------

MutCompany_checkCriteria(params) ==
  LET minEmployees == Get(params, "minEmployees")
      maxEmployees == Get(params, "maxEmployees")
  IN IF Len(params) > 0
        /\ indexOf(<<"name", "minEmployees", "maxEmployees">>, params[1].k) < 0
     THEN Throw("BadRequestError", "Invalid search criteria.")
     ELSE IF Truthy(minEmployees) /\ Truthy(maxEmployees)
             /\ GreaterThan(minEmployees, maxEmployees)
     THEN Throw("BadRequestError",
                "Max employees must be greater than min employees")
     ELSE Return(Undefined)

Company_checkCriteria(params) ==
  LET criteria == <<"name", "minEmployees", "maxEmployees">>
      minEmployees == Get(params, "minEmployees")
      maxEmployees == Get(params, "maxEmployees")
  IN IF \E i \in 1..Len(params) : indexOf(criteria, params[i].k) < 0
     THEN Throw("BadRequestError", "Invalid search criteria.")
     ELSE IF Truthy(minEmployees) /\ Truthy(maxEmployees)
             /\ GreaterThan(minEmployees, maxEmployees)
     THEN Throw("BadRequestError",
                "Max employees must be greater than min employees")
     ELSE Return(Undefined)

\* fragments pushed in the insertion order of the criteria's keys
RECURSIVE PushInKeyOrder(_, _, _)
PushInKeyOrder(params, stmt, vals) ==
  IF params = <<>> THEN [statement |-> join(stmt, " AND "), values |-> vals]
  ELSE LET key == Head(params).k
           raw == Head(params).v
           ph == Len(stmt) + 1
       IN IF ~Truthy(raw) THEN PushInKeyOrder(Tail(params), stmt, vals)
          ELSE IF key = "minEmployees"
          THEN PushInKeyOrder(Tail(params),
                 Append(stmt, Fragment("num_employees", ">=", ph)),
                 Append(vals, parseInt(raw)))
          ELSE IF key = "maxEmployees"
          THEN PushInKeyOrder(Tail(params),
                 Append(stmt, Fragment("num_employees", "<=", ph)),
                 Append(vals, parseInt(raw)))
          ELSE IF key = "name"
          THEN PushInKeyOrder(Tail(params),
                 Append(stmt, Fragment("name", "ILIKE", ph)),
                 Append(vals, Str(<<"%">> \o JsToString(raw) \o <<"%">>)))
          ELSE PushInKeyOrder(Tail(params), stmt, vals)

MutCompany_createSearchSqlStatement(params) ==
  Return(PushInKeyOrder(params, <<>>, <<>>))

Company_createSearchSqlStatement(params) ==
  LET name == Get(params, "name")
      minEmployees == Get(params, "minEmployees")
      maxEmployees == Get(params, "maxEmployees")
      s1 == IF Truthy(minEmployees)
            THEN <<Fragment("num_employees", ">=", Len(<<>>) + 1)>>
            ELSE <<>>
      v1 == IF Truthy(minEmployees) THEN <<parseInt(minEmployees)>> ELSE <<>>
      s2 == IF Truthy(maxEmployees)
            THEN Append(s1, Fragment("num_employees", "<=", Len(s1) + 1))
            ELSE s1
      v2 == IF Truthy(maxEmployees)
            THEN Append(v1, parseInt(maxEmployees))
            ELSE v1
      s3 == IF Truthy(name)
            THEN Append(s2, Fragment("name", "ILIKE", Len(s2) + 1))
            ELSE s2
      v3 == IF Truthy(name)
            THEN Append(v2, Str(<<"%">> \o JsToString(name) \o <<"%">>))
            ELSE v2
  IN Return([statement |-> join(s3, " AND "), values |-> v3])

\* ------------------------------------------------------------------------
\* models/job.js: the job filter, in the two definitions of the class
\* ------------------------------------------------------------------------

TrueLiteral == Str(<<"t", "r", "u", "e">>)

FalseLiteral == Str(<<"f", "a", "l", "s", "e">>)

\* the first definition of the class
JobFirst_checkCriteria(params) ==
  LET criteria == <<"title", "minSalary", "hasEquity">>
      hasEquity == Get(params, "hasEquity")
  IN IF \E i \in 1..Len(params) : indexOf(criteria, params[i].k) < 0
     THEN Throw("BadRequestError", "Invalid search criteria.")
     ELSE IF Truthy(hasEquity)
             /\ (StrictNotEqual(hasEquity, TrueLiteral)
                 \/ StrictNotEqual(hasEquity, FalseLiteral))
     THEN Throw("BadRequestError", "Invalid value for has equity")
     ELSE Return(Undefined)

JobFirst_createSearchSqlStatement(params) ==
  LET title == Get(params, "title")
      minSalary == Get(params, "minSalary")
      hasEquity == Get(params, "hasEquity")
      s1 == IF Truthy(title)
            THEN <<Fragment("title", "ILIKE", Len(<<>>) + 1)>>
            ELSE <<>>
      v1 == IF Truthy(title)
            THEN <<Str(<<"%">> \o JsToString(title) \o <<"%">>)>>
            ELSE <<>>
      s2 == IF Truthy(minSalary)
            THEN Append(s1, Fragment("salary", ">=", Len(s1) + 1))
            ELSE s1
      v2 == IF Truthy(minSalary) THEN Append(v1, parseInt(minSalary)) ELSE v1
      s3 == IF hasEquity = TrueLiteral
            THEN Append(s2, Fragment("equity", ">=", Len(s2) + 1))
            ELSE s2
      v3 == IF hasEquity = TrueLiteral THEN Append(v2, Str(<<"0">>)) ELSE v2
  IN Return([statement |-> join(s3, " AND "), values |-> v3])

\* the second definition of the class
Job_checkCriteria(params) ==
  LET criteria == <<"title", "minSalary", "hasEquity">>
      hasEquity == Get(params, "hasEquity")
  IN IF \E i \in 1..Len(params) : indexOf(criteria, params[i].k) < 0
     THEN Throw("BadRequestError", "Invalid search criteria.")
     ELSE IF Truthy(hasEquity)
             /\ StrictNotEqual(hasEquity, TrueLiteral)
             /\ StrictNotEqual(hasEquity, FalseLiteral)
     THEN Throw("BadRequestError", "Invalid value for has equity")
     ELSE Return(Undefined)

\* the minSalary block ahead of the title block
MutSwap_Job_createSearchSqlStatement(params) ==
  LET title == Get(params, "title")
      minSalary == Get(params, "minSalary")
      hasEquity == Get(params, "hasEquity")
      s1 == IF Truthy(minSalary)
            THEN <<Fragment("salary", ">=", Len(<<>>) + 1)>>
            ELSE <<>>
      v1 == IF Truthy(minSalary) THEN <<parseInt(minSalary)>> ELSE <<>>
      s2 == IF Truthy(title)
            THEN Append(s1, Fragment("title", "ILIKE", Len(s1) + 1))
            ELSE s1
      v2 == IF Truthy(title)
            THEN Append(v1, Str(<<"%">> \o JsToString(title) \o <<"%">>))
            ELSE v1
      s3 == IF hasEquity = TrueLiteral
            THEN Append(s2, Fragment("equity", ">", Len(s2) + 1))
            ELSE s2
      v3 == IF hasEquity = TrueLiteral THEN Append(v2, Str(<<"0">>)) ELSE v2
  IN Return([statement |-> join(s3, " AND "), values |-> v3])

\* placeholders numbered by the criterion's place in the precedence
MutJob_createSearchSqlStatement(params) ==
  LET title == Get(params, "title")
      minSalary == Get(params, "minSalary")
      hasEquity == Get(params, "hasEquity")
      s1 == IF Truthy(title) THEN <<Fragment("title", "ILIKE", 1)>> ELSE <<>>
      v1 == IF Truthy(title)
            THEN <<Str(<<"%">> \o JsToString(title) \o <<"%">>)>>
            ELSE <<>>
      s2 == IF Truthy(minSalary)
            THEN Append(s1, Fragment("salary", ">=", 2))
            ELSE s1
      v2 == IF Truthy(minSalary) THEN Append(v1, parseInt(minSalary)) ELSE v1
      s3 == IF hasEquity = TrueLiteral
            THEN Append(s2, Fragment("equity", ">", 3))
            ELSE s2
      v3 == IF hasEquity = TrueLiteral THEN Append(v2, Str(<<"0">>)) ELSE v2
  IN Return([statement |-> join(s3, " AND "), values |-> v3])

Job_createSearchSqlStatement(params) ==
  LET title == Get(params, "title")
      minSalary == Get(params, "minSalary")
      hasEquity == Get(params, "hasEquity")
      s1 == IF Truthy(title)
            THEN <<Fragment("title", "ILIKE", Len(<<>>) + 1)>>
            ELSE <<>>
      v1 == IF Truthy(title)
            THEN <<Str(<<"%">> \o JsToString(title) \o <<"%">>)>>
            ELSE <<>>
      s2 == IF Truthy(minSalary)
            THEN Append(s1, Fragment("salary", ">=", Len(s1) + 1))
            ELSE s1
      v2 == IF Truthy(minSalary) THEN Append(v1, parseInt(minSalary)) ELSE v1
      s3 == IF hasEquity = TrueLiteral
            THEN Append(s2, Fragment("equity", ">", Len(s2) + 1))
            ELSE s2
      v3 == IF hasEquity = TrueLiteral THEN Append(v2, Str(<<"0">>)) ELSE v2
  IN Return([statement |-> join(s3, " AND "), values |-> v3])

\* ------------------------------------------------------------------------
\* helpers/sql.js: the partial-update builder
\* ------------------------------------------------------------------------

\* a jsToSql argument: an object from field name to column name
FieldMap(cols) == [defined |-> TRUE, cols |-> cols]

\* no jsToSql argument
NoFieldMap == [defined |-> FALSE, cols |-> <<>>]

\* one fragment for every entry but the last
MutsqlForPartialUpdate(dataToUpdate, jsToSql) ==
  IF Len(dataToUpdate) = 0 THEN Throw("BadRequestError", "No data")
  ELSE Return(
    [setCols |->
       join([idx \in 1..(Len(dataToUpdate) - 1) |->
               LET colName == dataToUpdate[idx].k
               IN Fragment(IF jsToSql.defined /\ colName \in DOMAIN jsToSql.cols
                           THEN jsToSql.cols[colName]
                           ELSE colName,
                           "=", idx)],
            ", "),
     values |-> [idx \in 1..Len(dataToUpdate) |-> dataToUpdate[idx].v]])

\* "<column>"=$<idx + 1> for the entry at idx, the column being the field
\* map's name for the key or else the key; the values in the same order
sqlForPartialUpdate(dataToUpdate, jsToSql) ==
  IF Len(dataToUpdate) = 0 THEN Throw("BadRequestError", "No data")
  ELSE Return(
    [setCols |->
       join([idx \in 1..Len(dataToUpdate) |->
               LET colName == dataToUpdate[idx].k
               IN Fragment(IF jsToSql.defined /\ colName \in DOMAIN jsToSql.cols
                           THEN jsToSql.cols[colName]
                           ELSE colName,
                           "=", idx)],
            ", "),
     values |-> [idx \in 1..Len(dataToUpdate) |-> dataToUpdate[idx].v]])

\* ------------------------------------------------------------------------
\* The relational store behind db.query
\* ------------------------------------------------------------------------

\* UPDATE <table> SET <set> WHERE <where.col> = $<where.ph> RETURNING ...
UpdateStatement(table, set, where, returning, values) ==
  [verb |-> "UPDATE", table |-> table, set |-> set, where |-> where,
   returning |-> returning, values |-> values]

\* the RETURNING list applied to a row: output name -> value of its column
Project(row, returning) ==
  [name \in DOMAIN returning |-> row[returning[name]]]

\* the WHERE clause is not applied: every row of the table is updated
MutExecUpdate(database, q) ==
  LET table == database[q.table]
      key == q.values[q.where.ph]
      sets == q.set.parts
      hit == DOMAIN table
      NewRow(row) ==
        [c \in DOMAIN row |->
           IF \E i \in 1..Len(sets) : sets[i].col = c
           THEN q.values[sets[CHOOSE i \in 1..Len(sets) : sets[i].col = c].ph]
           ELSE row[c]]
  IN IF \E r \in DOMAIN table :
          \E i \in 1..Len(sets) : sets[i].col \notin DOMAIN table[r]
     THEN [error |-> "DatabaseError", rows |-> <<>>, db |-> database]
     ELSE IF hit = {}
     THEN [error |-> "none", rows |-> <<>>, db |-> database]
     ELSE LET r == CHOOSE r \in hit : TRUE
          IN [error |-> "none",
              rows |-> <<Project(NewRow(table[r]), q.returning)>>,
              db |-> [database EXCEPT
                        ![q.table] = [k \in DOMAIN table |->
                                        IF k \in hit THEN NewRow(table[k])
                                        ELSE table[k]]]]

\* db.query of an UPDATE statement: the rows whose key column equals the
\* bound key take the bound values in the named columns; the statement
\* fails when it names a column the table does not have
ExecUpdate(database, q) ==
  LET table == database[q.table]
      key == q.values[q.where.ph]
      sets == q.set.parts
      hit == {r \in DOMAIN table : table[r][q.where.col] = key}
      NewRow(row) ==
        [c \in DOMAIN row |->
           IF \E i \in 1..Len(sets) : sets[i].col = c
           THEN q.values[sets[CHOOSE i \in 1..Len(sets) : sets[i].col = c].ph]
           ELSE row[c]]
  IN IF \E r \in DOMAIN table :
          \E i \in 1..Len(sets) : sets[i].col \notin DOMAIN table[r]
     THEN [error |-> "DatabaseError", rows |-> <<>>, db |-> database]
     ELSE IF hit = {}
     THEN [error |-> "none", rows |-> <<>>, db |-> database]
     ELSE LET r == CHOOSE r \in hit : TRUE
          IN [error |-> "none",
              rows |-> <<Project(NewRow(table[r]), q.returning)>>,
              db |-> [database EXCEPT
                        ![q.table] = [k \in DOMAIN table |->
                                        IF k \in hit THEN NewRow(table[k])
                                        ELSE table[k]]]]

\* SELECT <returning> FROM <table> WHERE <where>
SelectStatement(table, where, returning, values) ==
  [verb |-> "SELECT", table |-> table, where |-> where,
   returning |-> returning, values |-> values]

\* the upper-case letters of the model's strings and their lower-case forms
LowerCase ==
  [upper \in {"C", "D", "F", "J", "L", "N", "T"} |->
     CASE upper = "C" -> "c" [] upper = "D" -> "d" [] upper = "F" -> "f"
       [] upper = "J" -> "j" [] upper = "L" -> "l" [] upper = "N" -> "n"
       [] OTHER -> "t"]

Lower(c) == IF c \in DOMAIN LowerCase THEN LowerCase[c] ELSE c

\* text LIKE pattern: % matches any run of characters, _ any one character
RECURSIVE LikeMatch(_, _)
LikeMatch(pattern, text) ==
  IF pattern = <<>> THEN text = <<>>
  ELSE IF Head(pattern) = "%"
  THEN \/ LikeMatch(Tail(pattern), text)
       \/ text # <<>> /\ LikeMatch(pattern, Tail(text))
  ELSE /\ text # <<>>
       /\ Head(pattern) = "_" \/ Head(pattern) = Head(text)
       /\ LikeMatch(Tail(pattern), Tail(text))

\* text ILIKE pattern: LIKE without regard to case
ILikeMatch(pattern, text) ==
  LikeMatch([i \in 1..Len(pattern) |-> Lower(pattern[i])],
            [i \in 1..Len(text) |-> Lower(text[i])])

\* a decimal literal of at most three fraction digits, in thousandths
Thousandths(chars) ==
  LET whole == DigitPrefix(chars)
      rest == SubSeq(chars, Len(whole) + 1, Len(chars))
      fraction == IF rest # <<>> /\ Head(rest) = "."
                  THEN DigitPrefix(Tail(rest))
                  ELSE <<>>
  IN 1000 * DigitsValue(whole)
       + DigitsValue(SubSeq(fraction \o <<"0", "0", "0">>, 1, 3))

\* the numeric value of a stored or bound value, in thousandths
SqlNumeric(v) == IF v.t = "number" THEN 1000 * v.n ELSE Thousandths(v.s)

\* a bound value a numeric comparison accepts: a number or a decimal literal
IsSqlNumeric(v) ==
  \/ v.t = "number"
  \/ v.t = "string" /\ DigitPrefix(v.s) # <<>>

\* one comparison of a WHERE clause on a row; a comparison with NULL is
\* not true, and a decimal string bound against a numeric column compares
\* as the number it denotes
FragmentHolds(row, frag, value) ==
  LET stored == row[frag.col]
  IN /\ stored.t # "null"
     /\ CASE frag.op = "ILIKE" -> ILikeMatch(JsToString(value), stored.s)
          [] frag.op = ">=" -> SqlNumeric(stored) >= SqlNumeric(value)
          [] frag.op = "<=" -> SqlNumeric(stored) <= SqlNumeric(value)
          [] frag.op = ">" -> SqlNumeric(stored) > SqlNumeric(value)
          [] OTHER -> IF stored.t = "number"
                      THEN /\ IsSqlNumeric(value)
                           /\ SqlNumeric(stored) = SqlNumeric(value)
                      ELSE stored = value

\* db.query of a SELECT statement: the set of the rows on which every
\* comparison of the WHERE clause holds (the statement has no ORDER BY).
\* The statement fails when the text after WHERE is empty, and when a
\* numeric comparison is bound to a value that is not a number.
ExecSelect(database, q) ==
  LET table == database[q.table]
      parts == q.where.parts
  IN IF parts = <<>>
     THEN [error |-> "DatabaseError", rows |-> {}, db |-> database]
     ELSE IF \E i \in 1..Len(parts) :
               parts[i].op \in {">=", "<=", ">"}
                 /\ ~IsSqlNumeric(q.values[parts[i].ph])
     THEN [error |-> "DatabaseError", rows |-> {}, db |-> database]
     ELSE [error |-> "none",
           rows |-> {Project(table[r], q.returning) :
                       r \in {k \in DOMAIN table :
                                \A i \in 1..Len(parts) :
                                  FragmentHolds(table[k], parts[i],
                                                q.values[parts[i].ph])}},
           db |-> database]

\* a cell of a VALUES list: the placeholder $<n> or a literal
Placeholder(n) == [ph |-> n, lit |-> Null]

Literal(value) == [ph |-> 0, lit |-> value]

\* INSERT INTO <table> (<columns>) VALUES (<cells>) RETURNING ...
InsertStatement(table, columns, cells, returning, values) ==
  [verb |-> "INSERT", table |-> table, columns |-> columns, cells |-> cells,
   returning |-> returning, values |-> values]

\* DELETE FROM <table> WHERE <where.col> = $<where.ph> RETURNING ...
DeleteStatement(table, where, returning, values) ==
  [verb |-> "DELETE", table |-> table, where |-> where,
   returning |-> returning, values |-> values]

\* UPDATE <table> SET <set> RETURNING ... : a statement without WHERE
UpdateAllStatement(table, set, returning, values) ==
  [verb |-> "UPDATE", table |-> table, set |-> set,
   returning |-> returning, values |-> values]

\* the key a row is stored under: the handle, id or username, and for an
\* application the pair of its username and job id
RowKey(table, row) ==
  CASE table = "companies" -> row.handle
    [] table = "jobs" -> row.id
    [] table = "users" -> row.username
    [] table = "applications" -> <<row.username, row.job_id>>

\* db.query of an INSERT statement: the row of the bound values is added;
\* an undefined parameter is stored as NULL; the statement fails when a
\* row with the same key is stored
ExecInsert(database, q) ==
  LET table == database[q.table]
      Cell(i) == IF q.cells[i].ph = 0 THEN q.cells[i].lit
                 ELSE IF q.values[q.cells[i].ph] = Undefined THEN Null
                 ELSE q.values[q.cells[i].ph]
      row == [c \in {q.columns[i] : i \in 1..Len(q.columns)} |->
                Cell(CHOOSE i \in 1..Len(q.columns) : q.columns[i] = c)]
      key == RowKey(q.table, row)
  IN IF key \in DOMAIN table
     THEN [error |-> "DatabaseError", rows |-> <<>>, db |-> database]
     ELSE [error |-> "none",
           rows |-> <<Project(row, q.returning)>>,
           db |-> [database EXCEPT
                     ![q.table] = [k \in DOMAIN table \cup {key} |->
                                     IF k = key THEN row ELSE table[k]]]]

\* db.query of a DELETE statement: the rows whose key column equals the
\* bound key leave the named table
ExecDelete(database, q) ==
  LET table == database[q.table]
      hit == {r \in DOMAIN table :
                table[r][q.where.col] = q.values[q.where.ph]}
  IN [error |-> "none",
      rows |-> IF hit = {} THEN <<>>
               ELSE <<Project(table[CHOOSE r \in hit : TRUE], q.returning)>>,
      db |-> [database EXCEPT
                ![q.table] = [k \in DOMAIN table \ hit |-> table[k]]]]

\* db.query of an UPDATE statement without WHERE: every row of the table
\* takes the bound values; the rows come back in no fixed order
ExecUpdateAll(database, q) ==
  LET table == database[q.table]
      sets == q.set.parts
      NewRow(row) ==
        [c \in DOMAIN row |->
           IF \E i \in 1..Len(sets) : sets[i].col = c
           THEN q.values[sets[CHOOSE i \in 1..Len(sets) : sets[i].col = c].ph]
           ELSE row[c]]
  IN [error |-> "none",
      rows |-> {Project(NewRow(table[k]), q.returning) : k \in DOMAIN table},
      db |-> [database EXCEPT
                ![q.table] = [k \in DOMAIN table |-> NewRow(table[k])]]]

\* the candidates for rows[0] of a result whose rows are in no fixed
\* order: any of its rows, or undefined when there is none
FirstRows(rows) == IF rows = {} THEN {Undefined} ELSE rows

\* rows[0] of a result of at most one row
FirstRow(rows) == CHOOSE row \in FirstRows(rows) : TRUE

\* the result of a method of a model class: its outcome, the statements it
\* sent, and the store it leaves
Result(outcome, statements, database) ==
  [out |-> outcome, sent |-> statements, db |-> database]

\* ------------------------------------------------------------------------
\* models/company.js, models/job.js, models/user.js: update
\* ------------------------------------------------------------------------

\* the builder is called without the field map
MutCompany_update(database, handle, data) ==
  LET built == sqlForPartialUpdate(data,
                 NoFieldMap)
  IN IF built.error # "none" THEN Result(built, <<>>, database)
     ELSE LET setCols == built.value.setCols
              values == built.value.values
              handleVarIdx == Len(values) + 1
              querySql ==
                UpdateStatement("companies", setCols,
                  Fragment("handle", "=", handleVarIdx),
                  [handle |-> "handle", name |-> "name",
                   description |-> "description",
                   numEmployees |-> "num_employees", logoUrl |-> "logo_url"],
                  Append(values, handle))
              result == ExecUpdate(database, querySql)
          IN IF result.error # "none"
             THEN Result(Throw(result.error, ""), <<querySql>>, result.db)
             ELSE IF result.rows = <<>>
             THEN Result(Throw("NotFoundError", "No company"),
                         <<querySql>>, result.db)
             ELSE Result(Return(result.rows[1]), <<querySql>>, result.db)

Company_update(database, handle, data) ==
  LET built == sqlForPartialUpdate(data,
                 FieldMap([numEmployees |-> "num_employees",
                           logoUrl |-> "logo_url"]))
  IN IF built.error # "none" THEN Result(built, <<>>, database)
     ELSE LET setCols == built.value.setCols
              values == built.value.values
              handleVarIdx == Len(values) + 1
              querySql ==
                UpdateStatement("companies", setCols,
                  Fragment("handle", "=", handleVarIdx),
                  [handle |-> "handle", name |-> "name",
                   description |-> "description",
                   numEmployees |-> "num_employees", logoUrl |-> "logo_url"],
                  Append(values, handle))
              result == ExecUpdate(database, querySql)
          IN IF result.error # "none"
             THEN Result(Throw(result.error, ""), <<querySql>>, result.db)
             ELSE IF result.rows = <<>>
             THEN Result(Throw("NotFoundError", "No company"),
                         <<querySql>>, result.db)
             ELSE Result(Return(result.rows[1]), <<querySql>>, result.db)

\* the UPDATE is sent before the payload is looked at
MutJob_update(database, id, data) ==
  LET querySql ==
        UpdateStatement("jobs", join(<<>>, ", "), Fragment("id", "=", 1),
          [id |-> "id", title |-> "title", salary |-> "salary",
           equity |-> "equity", companyHandle |-> "company_handle"],
          <<id>>)
      built == sqlForPartialUpdate(data, NoFieldMap)
  IN IF built.error # "none" THEN Result(built, <<querySql>>, database)
     ELSE Result(Throw("NotFoundError", "No job with id"),
                 <<querySql>>, database)

Job_update(database, id, data) ==
  LET built == sqlForPartialUpdate(data, NoFieldMap)
  IN IF built.error # "none" THEN Result(built, <<>>, database)
     ELSE LET setCols == built.value.setCols
              values == built.value.values
              idVarIdx == Len(values) + 1
              querySql ==
                UpdateStatement("jobs", setCols,
                  Fragment("id", "=", idVarIdx),
                  [id |-> "id", title |-> "title", salary |-> "salary",
                   equity |-> "equity", companyHandle |-> "company_handle"],
                  Append(values, id))
              result == ExecUpdate(database, querySql)
          IN IF result.error # "none"
             THEN Result(Throw(result.error, ""), <<querySql>>, result.db)
             ELSE IF result.rows = <<>>
             THEN Result(Throw("NotFoundError", "No job with id"),
                         <<querySql>>, result.db)
             ELSE Result(Return(result.rows[1]), <<querySql>>, result.db)

\* bcrypt.hash: the hash is a string other than the password
BcryptHash(password) == Str(<<"#">> \o JsToString(password))

\* the username takes the placeholder of the last payload entry
MutUser_update(database, username, data) ==
  LET hashed == [i \in 1..Len(data) |->
                   IF data[i].k = "password" /\ Truthy(data[i].v)
                   THEN [k |-> "password", v |-> BcryptHash(data[i].v)]
                   ELSE data[i]]
      built == sqlForPartialUpdate(hashed,
                 FieldMap([firstName |-> "first_name",
                           lastName |-> "last_name",
                           isAdmin |-> "is_admin"]))
  IN IF built.error # "none" THEN Result(built, <<>>, database)
     ELSE LET setCols == built.value.setCols
              values == built.value.values
              usernameVarIdx == Len(values)
              querySql ==
                UpdateStatement("users", setCols,
                  Fragment("username", "=", usernameVarIdx),
                  [username |-> "username", firstName |-> "first_name",
                   lastName |-> "last_name", email |-> "email",
                   isAdmin |-> "is_admin"],
                  Append(values, username))
              result == ExecUpdate(database, querySql)
          IN IF result.error # "none"
             THEN Result(Throw(result.error, ""), <<querySql>>, result.db)
             ELSE IF result.rows = <<>>
             THEN Result(Throw("NotFoundError", "No user"),
                         <<querySql>>, result.db)
             ELSE Result(Return(result.rows[1]), <<querySql>>, result.db)

User_update(database, username, data) ==
  LET hashed == [i \in 1..Len(data) |->
                   IF data[i].k = "password" /\ Truthy(data[i].v)
                   THEN [k |-> "password", v |-> BcryptHash(data[i].v)]
                   ELSE data[i]]
      built == sqlForPartialUpdate(hashed,
                 FieldMap([firstName |-> "first_name",
                           lastName |-> "last_name",
                           isAdmin |-> "is_admin"]))
  IN IF built.error # "none" THEN Result(built, <<>>, database)
     ELSE LET setCols == built.value.setCols
              values == built.value.values
              usernameVarIdx == Len(values) + 1
              querySql ==
                UpdateStatement("users", setCols,
                  Fragment("username", "=", usernameVarIdx),
                  [username |-> "username", firstName |-> "first_name",
                   lastName |-> "last_name", email |-> "email",
                   isAdmin |-> "is_admin"],
                  Append(values, username))
              result == ExecUpdate(database, querySql)
          IN IF result.error # "none"
             THEN Result(Throw(result.error, ""), <<querySql>>, result.db)
             ELSE IF result.rows = <<>>
             THEN Result(Throw("NotFoundError", "No user"),
                         <<querySql>>, result.db)
             ELSE Result(Return(result.rows[1]), <<querySql>>, result.db)

\* ------------------------------------------------------------------------
\* models/company.js, models/job.js: filter
\* ------------------------------------------------------------------------

\* the array of rows a query resolves to; a SELECT without ORDER BY fixes
\* no order, so the rows are kept as a set
Rows(set) == [t |-> "array", rows |-> set]

CompanyColumns ==
  [handle |-> "handle", name |-> "name", description |-> "description",
   numEmployees |-> "num_employees", logoUrl |-> "logo_url"]

JobColumns ==
  [id |-> "id", title |-> "title", salary |-> "salary", equity |-> "equity",
   companyHandle |-> "company_handle"]

Company_filter(database, params) ==
  LET checked == Company_checkCriteria(params)
  IN IF checked.error # "none" THEN Result(checked, <<>>, database)
     ELSE LET built == Company_createSearchSqlStatement(params).value
              querySql == SelectStatement("companies", built.statement,
                                          CompanyColumns, built.values)
              result == ExecSelect(database, querySql)
          IN IF result.error # "none"
             THEN Result(Throw(result.error, ""), <<querySql>>, database)
             ELSE Result(Return(Rows(result.rows)), <<querySql>>, database)

\* the first definition of the class: the clause is built and dropped
JobFirst_filter(database, params) ==
  LET checked == JobFirst_checkCriteria(params)
  IN IF checked.error # "none" THEN Result(checked, <<>>, database)
     ELSE Result(Return(Undefined), <<>>, database)

Job_filter(database, params) ==
  LET checked == Job_checkCriteria(params)
  IN IF checked.error # "none" THEN Result(checked, <<>>, database)
     ELSE LET built == Job_createSearchSqlStatement(params).value
              querySql == SelectStatement("jobs", built.statement,
                                          JobColumns, built.values)
              result == ExecSelect(database, querySql)
          IN IF result.error # "none"
             THEN Result(Throw(result.error, ""), <<querySql>>, database)
             ELSE Result(Return(Rows(result.rows)), <<querySql>>, database)

\* ------------------------------------------------------------------------
\* models/company.js, models/job.js: create, get, remove
\* ------------------------------------------------------------------------

\* WHERE <col> = $1
KeyIs(col) == join(<<Fragment(col, "=", 1)>>, " AND ")

\* the INSERT is sent without looking for a company of the same handle
MutCompany_create(database, data) ==
  LET insertSql ==
        InsertStatement("companies",
          <<"handle", "name", "description", "num_employees", "logo_url">>,
          <<Placeholder(1), Placeholder(2), Placeholder(3), Placeholder(4),
            Placeholder(5)>>,
          CompanyColumns,
          <<Get(data, "handle"), Get(data, "name"),
            Get(data, "description"), Get(data, "numEmployees"),
            Get(data, "logoUrl")>>)
      result == ExecInsert(database, insertSql)
  IN IF result.error # "none"
     THEN Result(Throw(result.error, ""), <<insertSql>>, result.db)
     ELSE Result(Return(result.rows[1]), <<insertSql>>, result.db)

Company_create(database, data) ==
  LET handle == Get(data, "handle")
      checkSql == SelectStatement("companies", KeyIs("handle"),
                                  [handle |-> "handle"], <<handle>>)
      duplicateCheck == ExecSelect(database, checkSql)
      insertSql ==
        InsertStatement("companies",
          <<"handle", "name", "description", "num_employees", "logo_url">>,
          <<Placeholder(1), Placeholder(2), Placeholder(3), Placeholder(4),
            Placeholder(5)>>,
          CompanyColumns,
          <<handle, Get(data, "name"), Get(data, "description"),
            Get(data, "numEmployees"), Get(data, "logoUrl")>>)
      result == ExecInsert(database, insertSql)
  IN IF FirstRow(duplicateCheck.rows) # Undefined
     THEN Result(Throw("BadRequestError", "Duplicate company"),
                 <<checkSql>>, database)
     ELSE IF result.error # "none"
     THEN Result(Throw(result.error, ""), <<checkSql, insertSql>>, result.db)
     ELSE Result(Return(result.rows[1]), <<checkSql, insertSql>>, result.db)

Company_get(database, handle) ==
  LET companySql == SelectStatement("companies", KeyIs("handle"),
                                    CompanyColumns, <<handle>>)
      companyRes == ExecSelect(database, companySql)
      company == FirstRow(companyRes.rows)
      jobSql == SelectStatement("jobs", KeyIs("company_handle"),
                  [id |-> "id", title |-> "title", salary |-> "salary",
                   equity |-> "equity"],
                  <<handle>>)
      jobs == ExecSelect(database, jobSql).rows
  IN IF company = Undefined
     THEN Result(Throw("NotFoundError", "No company"),
                 <<companySql>>, database)
     ELSE IF Cardinality(jobs) > 0
     THEN Result(Return([name \in DOMAIN company \cup {"jobs"} |->
                           IF name = "jobs" THEN Rows(jobs)
                           ELSE company[name]]),
                 <<companySql, jobSql>>, database)
     ELSE Result(Return(company), <<companySql, jobSql>>, database)

Company_remove(database, handle) ==
  LET querySql == DeleteStatement("companies", Fragment("handle", "=", 1),
                                  [handle |-> "handle"], <<handle>>)
      result == ExecDelete(database, querySql)
  IN IF result.rows = <<>>
     THEN Result(Throw("NotFoundError", "No company"),
                 <<querySql>>, result.db)
     ELSE Result(Return(Undefined), <<querySql>>, result.db)

Job_get(database, id) ==
  LET querySql == SelectStatement("jobs", KeyIs("id"), JobColumns, <<id>>)
      result == ExecSelect(database, querySql)
      job == FirstRow(result.rows)
  IN IF job = Undefined
     THEN Result(Throw("NotFoundError", "No job with id"),
                 <<querySql>>, database)
     ELSE Result(Return(job), <<querySql>>, database)

\* the job is deleted, and nothing is thrown when there was none
MutJob_remove(database, id) ==
  LET querySql == DeleteStatement("jobs", Fragment("id", "=", 1),
                                  [id |-> "id"], <<id>>)
      result == ExecDelete(database, querySql)
  IN Result(Return(Undefined), <<querySql>>, result.db)

Job_remove(database, id) ==
  LET querySql == DeleteStatement("jobs", Fragment("id", "=", 1),
                                  [id |-> "id"], <<id>>)
      result == ExecDelete(database, querySql)
  IN IF result.rows = <<>>
     THEN Result(Throw("NotFoundError", "No job with id"),
                 <<querySql>>, result.db)
     ELSE Result(Return(Undefined), <<querySql>>, result.db)

\* ------------------------------------------------------------------------
\* models/user.js: register, get, remove, applyForJob, updateJobApplication
\* ------------------------------------------------------------------------

UserColumns ==
  [username |-> "username", firstName |-> "first_name",
   lastName |-> "last_name", email |-> "email", isAdmin |-> "is_admin"]

ApplicationColumns ==
  [username |-> "username", jobId |-> "job_id",
   currentState |-> "current_state"]

\* the state an application is inserted with
Applied == Str(<<"a", "p", "p", "l", "i", "e", "d">>)

User_register(database, data) ==
  LET username == Get(data, "username")
      checkSql == SelectStatement("users", KeyIs("username"),
                                  [username |-> "username"], <<username>>)
      duplicateCheck == ExecSelect(database, checkSql)
      hashedPassword == BcryptHash(Get(data, "password"))
      insertSql ==
        InsertStatement("users",
          <<"username", "password", "first_name", "last_name", "email",
            "is_admin">>,
          <<Placeholder(1), Placeholder(2), Placeholder(3), Placeholder(4),
            Placeholder(5), Placeholder(6)>>,
          UserColumns,
          <<username, hashedPassword, Get(data, "firstName"),
            Get(data, "lastName"), Get(data, "email"),
            Get(data, "isAdmin")>>)
      result == ExecInsert(database, insertSql)
  IN IF FirstRow(duplicateCheck.rows) # Undefined
     THEN Result(Throw("BadRequestError", "Duplicate username"),
                 <<checkSql>>, database)
     ELSE IF result.error # "none"
     THEN Result(Throw(result.error, ""), <<checkSql, insertSql>>, result.db)
     ELSE Result(Return(result.rows[1]), <<checkSql, insertSql>>, result.db)

User_get(database, username) ==
  LET userSql == SelectStatement("users", KeyIs("username"), UserColumns,
                                 <<username>>)
      userRes == ExecSelect(database, userSql)
      user == FirstRow(userRes.rows)
      jobsSql == SelectStatement("applications", KeyIs("username"),
                                 [jobId |-> "job_id"], <<username>>)
      jobs == ExecSelect(database, jobsSql)
      jobIds == {job.jobId : job \in jobs.rows}
  IN IF user = Undefined
     THEN Result(Throw("NotFoundError", "No user"), <<userSql>>, database)
     ELSE IF Cardinality(jobs.rows) > 0
     THEN Result(Return([name \in DOMAIN user \cup {"jobs"} |->
                           IF name = "jobs" THEN Rows(jobIds)
                           ELSE user[name]]),
                 <<userSql, jobsSql>>, database)
     ELSE Result(Return(user), <<userSql, jobsSql>>, database)

User_remove(database, username) ==
  LET querySql == DeleteStatement("users", Fragment("username", "=", 1),
                                  [username |-> "username"], <<username>>)
      result == ExecDelete(database, querySql)
  IN IF result.rows = <<>>
     THEN Result(Throw("NotFoundError", "No user"), <<querySql>>, result.db)
     ELSE Result(Return(Undefined), <<querySql>>, result.db)

\* WHERE username = $1 AND job_id = $2
ApplicationIs ==
  join(<<Fragment("username", "=", 1), Fragment("job_id", "=", 2)>>, " AND ")

\* the outcome of Job.get is not awaited: a missing job does not end the call
MutUser_applyForJob(database, username, jobId) ==
  LET user == User_get(database, username)
      job == Job_get(database, jobId)
      checkSql == SelectStatement("applications", ApplicationIs,
                    [username |-> "username", job_id |-> "job_id"],
                    <<username, parseInt(jobId)>>)
      duplicateCheck == ExecSelect(database, checkSql)
      insertSql ==
        InsertStatement("applications",
          <<"username", "job_id", "current_state">>,
          <<Placeholder(1), Placeholder(2), Literal(Applied)>>,
          ApplicationColumns,
          <<username, parseInt(jobId)>>)
      res == ExecInsert(database, insertSql)
      lookups == user.sent \o job.sent
  IN IF user.out.error # "none" THEN Result(user.out, user.sent, database)
     ELSE IF FirstRow(duplicateCheck.rows) # Undefined
     THEN Result(Throw("BadRequestError", "Duplicate application"),
                 Append(lookups, checkSql), database)
     ELSE IF res.error # "none"
     THEN Result(Throw(res.error, ""),
                 lookups \o <<checkSql, insertSql>>, res.db)
     ELSE Result(Return(res.rows[1]),
                 lookups \o <<checkSql, insertSql>>, res.db)

User_applyForJob(database, username, jobId) ==
  LET user == User_get(database, username)
      job == Job_get(database, jobId)
      checkSql == SelectStatement("applications", ApplicationIs,
                    [username |-> "username", job_id |-> "job_id"],
                    <<username, parseInt(jobId)>>)
      duplicateCheck == ExecSelect(database, checkSql)
      insertSql ==
        InsertStatement("applications",
          <<"username", "job_id", "current_state">>,
          <<Placeholder(1), Placeholder(2), Literal(Applied)>>,
          ApplicationColumns,
          <<username, parseInt(jobId)>>)
      res == ExecInsert(database, insertSql)
      lookups == user.sent \o job.sent
  IN IF user.out.error # "none" THEN Result(user.out, user.sent, database)
     ELSE IF job.out.error # "none" THEN Result(job.out, lookups, database)
     ELSE IF FirstRow(duplicateCheck.rows) # Undefined
     THEN Result(Throw("BadRequestError", "Duplicate application"),
                 Append(lookups, checkSql), database)
     ELSE IF res.error # "none"
     THEN Result(Throw(res.error, ""),
                 lookups \o <<checkSql, insertSql>>, res.db)
     ELSE Result(Return(res.rows[1]),
                 lookups \o <<checkSql, insertSql>>, res.db)

\* the results the call can have: the UPDATE has no WHERE clause, and
\* rows[0] of its result is any of the rows it updated
User_updateJobApplication(database, username, jobId, newState) ==
  LET selectSql == SelectStatement("applications", ApplicationIs,
                     [username |-> "username", job_id |-> "job_id",
                      current_state |-> "current_state"],
                     <<username, jobId>>)
      result == ExecSelect(database, selectSql)
      application == FirstRow(result.rows)
      updateSql ==
        UpdateAllStatement("applications",
          join(<<Fragment("current_state", "=", 1)>>, ", "),
          ApplicationColumns, <<newState>>)
      updateRes == ExecUpdateAll(database, updateSql)
  IN IF application = Undefined
     THEN {Result(Throw("NotFoundError", "Application not found"),
                  <<selectSql>>, database)}
     ELSE {Result(Return(updatedApp), <<selectSql, updateSql>>, updateRes.db) :
             updatedApp \in FirstRows(updateRes.rows)}

\* ------------------------------------------------------------------------
\* Inputs of the filter functions
\* ------------------------------------------------------------------------

\* raw values of a numeric bound: query-string text and numbers
NumericRaw ==
  {Str(<<"9">>), Str(<<"1", "0">>), Str(<<>>), Str(<<"t", "e", "n">>),
   Num(0), Num(10), Num(50)}

\* raw values of the hasEquity flag
FlagRaw ==
  {TrueLiteral, FalseLiteral, Str(<<"T", "r", "u", "e">>), Str(<<>>),
   Str(<<"o", "f", "c", "o", "u", "r", "s", "e", "d", "u", "h">>)}

CompanyEntries ==
  {[k |-> "name", v |-> val] : val \in {Str(<<"c", "1">>), Str(<<>>)}}
    \cup {[k |-> "minEmployees", v |-> val] : val \in NumericRaw}
    \cup {[k |-> "maxEmployees", v |-> val] : val \in NumericRaw}
    \cup {[k |-> "coffeeMachines", v |-> Num(2)]}

JobEntries ==
  {[k |-> "title", v |-> val] : val \in {Str(<<"j", "2">>), Str(<<>>)}}
    \cup {[k |-> "minSalary", v |-> val] :
            val \in {Num(2), Num(0), Str(<<"3">>), Str(<<>>),
                     Str(<<"t", "e", "n">>)}}
    \cup {[k |-> "hasEquity", v |-> val] : val \in FlagRaw}
    \cup {[k |-> "coffeeMachines", v |-> Num(2)]}

CompanyCriteria == ObjectsOver(CompanyEntries, MaxKeys)

JobCriteria == ObjectsOver(JobEntries, MaxKeys)

\* ------------------------------------------------------------------------
\* Inputs of the partial update
\* ------------------------------------------------------------------------

NewText == Str(<<"N", "e", "w">>)

JobUpdateEntries ==
  {[k |-> "title", v |-> NewText], [k |-> "salary", v |-> Null]}

CompanyUpdateEntries ==
  {[k |-> "name", v |-> NewText], [k |-> "numEmployees", v |-> Num(10)]}

UserUpdateEntries ==
  {[k |-> "firstName", v |-> NewText],
   [k |-> "password", v |-> Str(<<"p", "w">>)]}

\* the payload of helpers/sql.test.js
TestUpdateEntries ==
  {[k |-> "firstName", v |-> Str(<<"A", "l", "i", "y", "a">>)],
   [k |-> "age", v |-> Num(32)]}

JobPayloads == ObjectsOver(JobUpdateEntries, MaxFields)

CompanyPayloads == ObjectsOver(CompanyUpdateEntries, MaxFields)

UserPayloads == ObjectsOver(UserUpdateEntries, MaxFields)

BuilderPayloads ==
  ObjectsOver(JobUpdateEntries \cup CompanyUpdateEntries
                \cup UserUpdateEntries \cup TestUpdateEntries, MaxFields)

\* the field maps of Company.update, User.update and helpers/sql.test.js,
\* and the absent one of Job.update
FieldMaps ==
  {FieldMap([numEmployees |-> "num_employees", logoUrl |-> "logo_url"]),
   FieldMap([firstName |-> "first_name", lastName |-> "last_name",
             isAdmin |-> "is_admin"]),
   FieldMap([firstName |-> "first_name", age |-> "age"]),
   NoFieldMap}

\* the keys the methods are called with: two stored rows and an absent one
JobIds == {Num(1), Num(2), Num(0)}

\* the job ids User.applyForJob is called with: the route passes the id as
\* the string of the path
ApplyJobIds == JobIds \cup {Str(<<"1">>)}

CompanyHandles == {Str(<<"c", "1">>), Str(<<"c", "2">>), Str(<<"n", "o">>)}

Usernames == {Str(<<"u", "1">>), Str(<<"u", "2">>), Str(<<"n", "o">>)}

\* the rows the store starts with
SeedDb ==
  [jobs |->
     [id \in {Num(1), Num(2)} |->
        [id |-> id,
         title |-> Str(<<"j">> \o JsToString(id)),
         salary |-> id,
         equity |-> IF id = Num(1) THEN Null ELSE Str(<<"0">>),
         company_handle |-> Str(<<"c">> \o JsToString(id))]],
   companies |->
     [handle \in {Str(<<"c", "1">>), Str(<<"c", "2">>)} |->
        [handle |-> handle,
         name |-> Str(<<"C">> \o Tail(handle.s)),
         description |-> Str(<<"D">> \o Tail(handle.s)),
         num_employees |-> parseInt(Str(Tail(handle.s))),
         logo_url |-> Null]],
   users |->
     [username \in {Str(<<"u", "1">>), Str(<<"u", "2">>)} |->
        [username |-> username,
         password |-> BcryptHash(username),
         first_name |-> Str(<<"F">> \o Tail(username.s)),
         last_name |-> Str(<<"L">> \o Tail(username.s)),
         email |-> Str(username.s \o <<"@">>),
         is_admin |-> Bool(username = Str(<<"u", "2">>))]]]

\* the rows of the model tests' fixtures: a third job, with equity, and a
\* third company
FixtureDb ==
  [SeedDb EXCEPT
     !.jobs =
       [id \in {Num(1), Num(2), Num(3)} |->
          IF id \in DOMAIN SeedDb.jobs THEN SeedDb.jobs[id]
          ELSE [id |-> id,
                title |-> Str(<<"j", "3">>),
                salary |-> Num(3),
                equity |-> Str(<<"0", ".", "0", "0", "3">>),
                company_handle |-> Str(<<"c", "3">>)]],
     !.companies =
       [handle \in {Str(<<"c", "1">>), Str(<<"c", "2">>), Str(<<"c", "3">>)} |->
          IF handle \in DOMAIN SeedDb.companies THEN SeedDb.companies[handle]
          ELSE [handle |-> handle,
                name |-> Str(<<"C", "3">>),
                description |-> Str(<<"D", "3">>),
                num_employees |-> Num(10),
                logo_url |-> Null]]]

\* a state an application is moved to
Interviewed ==
  Str(<<"i", "n", "t", "e", "r", "v", "i", "e", "w", "e", "d">>)

ApplicationStates == {Applied, Interviewed}

\* the argument of Company.create, for each handle
CompanyCreateData ==
  {<<[k |-> "handle", v |-> handle],
     [k |-> "name", v |-> NewText],
     [k |-> "description", v |-> NewText],
     [k |-> "numEmployees", v |-> Num(10)],
     [k |-> "logoUrl", v |-> Null]>> : handle \in CompanyHandles}

\* the argument of User.register, for each username
UserRegisterData ==
  {<<[k |-> "username", v |-> username],
     [k |-> "password", v |-> Str(<<"p", "w">>)],
     [k |-> "firstName", v |-> NewText],
     [k |-> "lastName", v |-> NewText],
     [k |-> "email", v |-> NewText],
     [k |-> "isAdmin", v |-> Bool(FALSE)]>> : username \in Usernames}

\* the applications tables over the given users and jobs: any of the pairs
\* has applied, and each application is in any state
ApplicationTables(usernames, ids) ==
  UNION {{[pair \in pairs |->
             [username |-> pair[1], job_id |-> pair[2],
              current_state |-> state[pair]]] :
            state \in [pairs -> ApplicationStates]} :
           pairs \in SUBSET (usernames \X ids)}

\* the stores the methods are called on: any of the seed companies, any of
\* the seed jobs of those companies, any of the seed users, and applications
\* of those users for those jobs
Stores ==
  UNION {UNION {UNION {
    {[companies |-> [k \in handles |-> SeedDb.companies[k]],
      jobs |-> [k \in ids |-> SeedDb.jobs[k]],
      users |-> [k \in usernames |-> SeedDb.users[k]],
      applications |-> applications] :
       applications \in ApplicationTables(usernames, ids)} :
    usernames \in SUBSET DOMAIN SeedDb.users} :
    ids \in {js \in SUBSET DOMAIN SeedDb.jobs :
               \A k \in js : SeedDb.jobs[k].company_handle \in handles}} :
    handles \in SUBSET DOMAIN SeedDb.companies}

\* ------------------------------------------------------------------------
\* State
\* ------------------------------------------------------------------------

VARIABLES
  db,    \* the relational store: one function from key to row per table
  call,  \* the most recent invocation: the function and its arguments
  out,   \* the outcome of that invocation: a returned value or an exception
  sent   \* the statements that invocation passed to db.query, in order

vars == <<db, call, out, sent>>

\* the outcome of an invocation that has not run yet
Pending == [error |-> "pending", msg |-> "", value |-> Undefined]

\* ------------------------------------------------------------------------
\* Invocations of the filter functions: each is applied to the criteria
\* object it was called with
\* ------------------------------------------------------------------------

FilterCalls ==
  {[fn |-> f, params |-> p] :
     f \in {"Company.checkCriteria", "Company.createSearchSqlStatement"},
     p \in CompanyCriteria}
    \cup
  {[fn |-> f, params |-> p] :
     f \in {"JobFirst.checkCriteria", "JobFirst.createSearchSqlStatement",
            "Job.checkCriteria", "Job.createSearchSqlStatement"},
     p \in JobCriteria}

\* the invocations of the partial-update builder
UpdateBuilderCalls ==
  {[fn |-> "sqlForPartialUpdate", dataToUpdate |-> d, jsToSql |-> m] :
     d \in BuilderPayloads, m \in FieldMaps}

BuilderInit ==
  /\ db = SeedDb
  /\ call \in FilterCalls \cup UpdateBuilderCalls
  /\ out = Pending
  /\ sent = <<>>

CompanyCheckCriteria ==
  /\ call.fn = "Company.checkCriteria"
  /\ out = Pending
  /\ out' = Company_checkCriteria(call.params)
  /\ UNCHANGED <<db, call, sent>>

CompanyCreateSearchSqlStatement ==
  /\ call.fn = "Company.createSearchSqlStatement"
  /\ out = Pending
  /\ out' = Company_createSearchSqlStatement(call.params)
  /\ UNCHANGED <<db, call, sent>>

JobFirstCheckCriteria ==
  /\ call.fn = "JobFirst.checkCriteria"
  /\ out = Pending
  /\ out' = JobFirst_checkCriteria(call.params)
  /\ UNCHANGED <<db, call, sent>>

JobFirstCreateSearchSqlStatement ==
  /\ call.fn = "JobFirst.createSearchSqlStatement"
  /\ out = Pending
  /\ out' = JobFirst_createSearchSqlStatement(call.params)
  /\ UNCHANGED <<db, call, sent>>

JobCheckCriteria ==
  /\ call.fn = "Job.checkCriteria"
  /\ out = Pending
  /\ out' = Job_checkCriteria(call.params)
  /\ UNCHANGED <<db, call, sent>>

JobCreateSearchSqlStatement ==
  /\ call.fn = "Job.createSearchSqlStatement"
  /\ out = Pending
  /\ out' = Job_createSearchSqlStatement(call.params)
  /\ UNCHANGED <<db, call, sent>>

SqlForPartialUpdate ==
  /\ call.fn = "sqlForPartialUpdate"
  /\ out = Pending
  /\ out' = sqlForPartialUpdate(call.dataToUpdate, call.jsToSql)
  /\ UNCHANGED <<db, call, sent>>

BuilderNext ==
  \/ SqlForPartialUpdate
  \/ CompanyCheckCriteria
  \/ CompanyCreateSearchSqlStatement
  \/ JobFirstCheckCriteria
  \/ JobFirstCreateSearchSqlStatement
  \/ JobCheckCriteria
  \/ JobCreateSearchSqlStatement

BuilderSpec == BuilderInit /\ [][BuilderNext]_vars

\* ------------------------------------------------------------------------
\* Calls of the model classes' methods against the store, one at a time
\* ------------------------------------------------------------------------

Idle == [fn |-> "none"]

Init ==
  /\ db = SeedDb
  /\ call = Idle
  /\ out = Pending
  /\ sent = <<>>

CompanyUpdate ==
  /\ call = Idle
  /\ \E handle \in CompanyHandles, data \in CompanyPayloads :
       LET res == Company_update(db, handle, data)
       IN /\ call' = [fn |-> "Company.update", key |-> handle, data |-> data]
          /\ out' = res.out
          /\ sent' = res.sent
          /\ db' = res.db

JobUpdate ==
  /\ call = Idle
  /\ \E id \in JobIds, data \in JobPayloads :
       LET res == Job_update(db, id, data)
       IN /\ call' = [fn |-> "Job.update", key |-> id, data |-> data]
          /\ out' = res.out
          /\ sent' = res.sent
          /\ db' = res.db

UserUpdate ==
  /\ call = Idle
  /\ \E username \in Usernames, data \in UserPayloads :
       LET res == User_update(db, username, data)
       IN /\ call' = [fn |-> "User.update", key |-> username, data |-> data]
          /\ out' = res.out
          /\ sent' = res.sent
          /\ db' = res.db

\* the caller has taken the outcome; the next call can be made
Respond ==
  /\ call # Idle
  /\ call' = Idle
  /\ out' = Pending
  /\ sent' = <<>>
  /\ UNCHANGED db

Next ==
  \/ CompanyUpdate
  \/ JobUpdate
  \/ UserUpdate
  \/ Respond

Spec == Init /\ [][Next]_vars

\* ------------------------------------------------------------------------
\* Calls of Company.filter and Job.filter on the fixture rows: each is
\* applied to the criteria object it was called with
\* ------------------------------------------------------------------------

FilterInit ==
  /\ db = FixtureDb
  /\ call \in {[fn |-> "Company.filter", params |-> p] : p \in CompanyCriteria}
                \cup {[fn |-> f, params |-> p] :
                        f \in {"JobFirst.filter", "Job.filter"},
                        p \in JobCriteria}
  /\ out = Pending
  /\ sent = <<>>

CompanyFilter ==
  /\ call.fn = "Company.filter"
  /\ out = Pending
  /\ LET res == Company_filter(db, call.params)
     IN out' = res.out /\ sent' = res.sent /\ db' = res.db
  /\ UNCHANGED call

JobFirstFilter ==
  /\ call.fn = "JobFirst.filter"
  /\ out = Pending
  /\ LET res == JobFirst_filter(db, call.params)
     IN out' = res.out /\ sent' = res.sent /\ db' = res.db
  /\ UNCHANGED call

JobFilter ==
  /\ call.fn = "Job.filter"
  /\ out = Pending
  /\ LET res == Job_filter(db, call.params)
     IN out' = res.out /\ sent' = res.sent /\ db' = res.db
  /\ UNCHANGED call

FilterNext ==
  \/ CompanyFilter
  \/ JobFirstFilter
  \/ JobFilter

FilterSpec == FilterInit /\ [][FilterNext]_vars

\* ------------------------------------------------------------------------
\* Calls of the methods that create, read, update and remove records, each
\* made on one of the stores
\* ------------------------------------------------------------------------

RecordInit ==
  /\ db \in Stores
  /\ call = Idle
  /\ out = Pending
  /\ sent = <<>>

CompanyCreate ==
  /\ call = Idle
  /\ \E data \in CompanyCreateData :
       LET res == Company_create(db, data)
       IN /\ call' = [fn |-> "Company.create", key |-> Get(data, "handle"),
                      data |-> data]
          /\ out' = res.out /\ sent' = res.sent /\ db' = res.db

CompanyGet ==
  /\ call = Idle
  /\ \E handle \in CompanyHandles :
       LET res == Company_get(db, handle)
       IN /\ call' = [fn |-> "Company.get", key |-> handle]
          /\ out' = res.out /\ sent' = res.sent /\ db' = res.db

CompanyRemove ==
  /\ call = Idle
  /\ \E handle \in CompanyHandles :
       LET res == Company_remove(db, handle)
       IN /\ call' = [fn |-> "Company.remove", key |-> handle]
          /\ out' = res.out /\ sent' = res.sent /\ db' = res.db

JobGet ==
  /\ call = Idle
  /\ \E id \in JobIds :
       LET res == Job_get(db, id)
       IN /\ call' = [fn |-> "Job.get", key |-> id]
          /\ out' = res.out /\ sent' = res.sent /\ db' = res.db

JobRemove ==
  /\ call = Idle
  /\ \E id \in JobIds :
       LET res == Job_remove(db, id)
       IN /\ call' = [fn |-> "Job.remove", key |-> id]
          /\ out' = res.out /\ sent' = res.sent /\ db' = res.db

UserRegister ==
  /\ call = Idle
  /\ \E data \in UserRegisterData :
       LET res == User_register(db, data)
       IN /\ call' = [fn |-> "User.register", key |-> Get(data, "username"),
                      data |-> data]
          /\ out' = res.out /\ sent' = res.sent /\ db' = res.db

UserGet ==
  /\ call = Idle
  /\ \E username \in Usernames :
       LET res == User_get(db, username)
       IN /\ call' = [fn |-> "User.get", key |-> username]
          /\ out' = res.out /\ sent' = res.sent /\ db' = res.db

UserRemove ==
  /\ call = Idle
  /\ \E username \in Usernames :
       LET res == User_remove(db, username)
       IN /\ call' = [fn |-> "User.remove", key |-> username]
          /\ out' = res.out /\ sent' = res.sent /\ db' = res.db

UserApplyForJob ==
  /\ call = Idle
  /\ \E username \in Usernames, jobId \in ApplyJobIds :
       LET res == User_applyForJob(db, username, jobId)
       IN /\ call' = [fn |-> "User.applyForJob", key |-> <<username, jobId>>]
          /\ out' = res.out /\ sent' = res.sent /\ db' = res.db

UserUpdateJobApplication ==
  /\ call = Idle
  /\ \E username \in Usernames, jobId \in JobIds,
        newState \in ApplicationStates :
       \E res \in User_updateJobApplication(db, username, jobId, newState) :
          /\ call' = [fn |-> "User.updateJobApplication",
                      key |-> <<username, jobId>>, data |-> newState]
          /\ out' = res.out /\ sent' = res.sent /\ db' = res.db

RecordNext ==
  \/ CompanyCreate
  \/ CompanyGet
  \/ CompanyUpdate
  \/ CompanyRemove
  \/ JobGet
  \/ JobUpdate
  \/ JobRemove
  \/ UserRegister
  \/ UserGet
  \/ UserUpdate
  \/ UserRemove
  \/ UserApplyForJob
  \/ UserUpdateJobApplication

RecordSpec == RecordInit /\ [][RecordNext]_vars

\* ------------------------------------------------------------------------
\* Two calls of one creating method with one key, in flight together: each
\* `await` is a point where the other call's statements can run. Here call,
\* out and sent hold one entry per call.
\* ------------------------------------------------------------------------

Callers == {1, 2}

\* Company.create: SELECT handle FROM companies WHERE handle = $1
Company_create_checkSql(data) ==
  SelectStatement("companies", KeyIs("handle"), [handle |-> "handle"],
                  <<Get(data, "handle")>>)

\* Company.create: INSERT INTO companies ...
Company_create_insertSql(data) ==
  InsertStatement("companies",
    <<"handle", "name", "description", "num_employees", "logo_url">>,
    <<Placeholder(1), Placeholder(2), Placeholder(3), Placeholder(4),
      Placeholder(5)>>,
    CompanyColumns,
    <<Get(data, "handle"), Get(data, "name"), Get(data, "description"),
      Get(data, "numEmployees"), Get(data, "logoUrl")>>)

\* User.register: SELECT username FROM users WHERE username = $1
User_register_checkSql(data) ==
  SelectStatement("users", KeyIs("username"), [username |-> "username"],
                  <<Get(data, "username")>>)

\* User.register: INSERT INTO users ...
User_register_insertSql(data, hashedPassword) ==
  InsertStatement("users",
    <<"username", "password", "first_name", "last_name", "email",
      "is_admin">>,
    <<Placeholder(1), Placeholder(2), Placeholder(3), Placeholder(4),
      Placeholder(5), Placeholder(6)>>,
    UserColumns,
    <<Get(data, "username"), hashedPassword, Get(data, "firstName"),
      Get(data, "lastName"), Get(data, "email"), Get(data, "isAdmin")>>)

\* User.applyForJob: SELECT ... FROM applications WHERE username = $1 AND
\* job_id = $2
User_applyForJob_checkSql(username, jobId) ==
  SelectStatement("applications", ApplicationIs,
                  [username |-> "username", job_id |-> "job_id"],
                  <<username, parseInt(jobId)>>)

\* User.applyForJob: INSERT INTO applications ...
User_applyForJob_insertSql(username, jobId) ==
  InsertStatement("applications",
    <<"username", "job_id", "current_state">>,
    <<Placeholder(1), Placeholder(2), Literal(Applied)>>,
    ApplicationColumns,
    <<username, parseInt(jobId)>>)

\* the stores the two calls start on: the seed rows and at most one
\* application
ConcurrentStores ==
  {store \in Stores :
     /\ DOMAIN store.companies = DOMAIN SeedDb.companies
     /\ DOMAIN store.jobs = DOMAIN SeedDb.jobs
     /\ DOMAIN store.users = DOMAIN SeedDb.users
     /\ Cardinality(DOMAIN store.applications) <= 1
     /\ \A k \in DOMAIN store.applications :
          store.applications[k].current_state = Applied}

\* a call and the statement it is about to await
ConcurrentCalls ==
  {[fn |-> "Company.create", data |-> data, pc |-> "duplicateCheck"] :
     data \in CompanyCreateData}
    \cup {[fn |-> "User.register", data |-> data, pc |-> "duplicateCheck"] :
            data \in UserRegisterData}
    \cup {[fn |-> "User.applyForJob", data |-> <<username, jobId>>,
           pc |-> "User.get"] :
            username \in Usernames, jobId \in ApplyJobIds}

ConcurrentInit ==
  /\ db \in ConcurrentStores
  /\ call \in {[p \in Callers |-> c] : c \in ConcurrentCalls}
  /\ out = [p \in Callers |-> Pending]
  /\ sent = [p \in Callers |-> <<>>]

\* the call of p goes on to pc, having sent the statements
Step(p, pc, statements) ==
  /\ call' = [call EXCEPT ![p].pc = pc]
  /\ sent' = [sent EXCEPT ![p] = @ \o statements]

\* the call of p ends with the outcome, having sent the statements
Finish(p, outcome, statements) ==
  /\ Step(p, "done", statements)
  /\ out' = [out EXCEPT ![p] = outcome]

\* a duplicate check has come back: the call throws on a row, and goes on
\* to next otherwise
DuplicateChecked(p, checkSql, class, msg, next) ==
  /\ IF FirstRow(ExecSelect(db, checkSql).rows) # Undefined
     THEN Finish(p, Throw(class, msg), <<checkSql>>)
     ELSE Step(p, next, <<checkSql>>) /\ UNCHANGED out
  /\ UNCHANGED db

\* an INSERT has come back: the call returns its row, or throws the
\* store's error
Inserted(p, insertSql) ==
  LET result == ExecInsert(db, insertSql)
  IN /\ db' = result.db
     /\ IF result.error # "none"
        THEN Finish(p, Throw(result.error, ""), <<insertSql>>)
        ELSE Finish(p, Return(result.rows[1]), <<insertSql>>)

CompanyCreateDuplicateCheck(p) ==
  /\ call[p].fn = "Company.create" /\ call[p].pc = "duplicateCheck"
  /\ DuplicateChecked(p, Company_create_checkSql(call[p].data),
                      "BadRequestError", "Duplicate company", "insert")

CompanyCreateInsert(p) ==
  /\ call[p].fn = "Company.create" /\ call[p].pc = "insert"
  /\ Inserted(p, Company_create_insertSql(call[p].data))

UserRegisterDuplicateCheck(p) ==
  /\ call[p].fn = "User.register" /\ call[p].pc = "duplicateCheck"
  /\ DuplicateChecked(p, User_register_checkSql(call[p].data),
                      "BadRequestError", "Duplicate username", "bcrypt.hash")

\* await bcrypt.hash(password, BCRYPT_WORK_FACTOR)
UserRegisterHash(p) ==
  /\ call[p].fn = "User.register" /\ call[p].pc = "bcrypt.hash"
  /\ Step(p, "insert", <<>>)
  /\ UNCHANGED <<db, out>>

UserRegisterInsert(p) ==
  /\ call[p].fn = "User.register" /\ call[p].pc = "insert"
  /\ Inserted(p, User_register_insertSql(
                   call[p].data, BcryptHash(Get(call[p].data, "password"))))

\* await User.get(username)
UserApplyForJobGetUser(p) ==
  /\ call[p].fn = "User.applyForJob" /\ call[p].pc = "User.get"
  /\ LET user == User_get(db, call[p].data[1])
     IN IF user.out.error # "none" THEN Finish(p, user.out, user.sent)
        ELSE Step(p, "Job.get", user.sent) /\ UNCHANGED out
  /\ UNCHANGED db

\* await Job.get(jobId)
UserApplyForJobGetJob(p) ==
  /\ call[p].fn = "User.applyForJob" /\ call[p].pc = "Job.get"
  /\ LET job == Job_get(db, call[p].data[2])
     IN IF job.out.error # "none" THEN Finish(p, job.out, job.sent)
        ELSE Step(p, "duplicateCheck", job.sent) /\ UNCHANGED out
  /\ UNCHANGED db

UserApplyForJobDuplicateCheck(p) ==
  /\ call[p].fn = "User.applyForJob" /\ call[p].pc = "duplicateCheck"
  /\ DuplicateChecked(p,
       User_applyForJob_checkSql(call[p].data[1], call[p].data[2]),
       "BadRequestError", "Duplicate application", "insert")

UserApplyForJobInsert(p) ==
  /\ call[p].fn = "User.applyForJob" /\ call[p].pc = "insert"
  /\ Inserted(p, User_applyForJob_insertSql(call[p].data[1],
                                            call[p].data[2]))

ConcurrentNext ==
  \E p \in Callers :
    \/ CompanyCreateDuplicateCheck(p)
    \/ CompanyCreateInsert(p)
    \/ UserRegisterDuplicateCheck(p)
    \/ UserRegisterHash(p)
    \/ UserRegisterInsert(p)
    \/ UserApplyForJobGetUser(p)
    \/ UserApplyForJobGetJob(p)
    \/ UserApplyForJobDuplicateCheck(p)
    \/ UserApplyForJobInsert(p)

ConcurrentSpec == ConcurrentInit /\ [][ConcurrentNext]_vars

\* ------------------------------------------------------------------------
\* Properties of the filter functions (checked under BuilderSpec)
\* ------------------------------------------------------------------------

Returned == out # Pending

CheckCriteriaFns ==
  {"Company.checkCriteria", "JobFirst.checkCriteria", "Job.checkCriteria"}

BuilderFns ==
  {"Company.createSearchSqlStatement", "JobFirst.createSearchSqlStatement",
   "Job.createSearchSqlStatement"}

JobBuilderFns ==
  {"JobFirst.createSearchSqlStatement", "Job.createSearchSqlStatement"}

\* the recognized criterion names of the entity a function belongs to
Recognized(fn) ==
  IF fn \in {"Company.checkCriteria", "Company.createSearchSqlStatement"}
  THEN {"name", "minEmployees", "maxEmployees"}
  ELSE {"title", "minSalary", "hasEquity"}

AllRecognized ==
  \A i \in 1..Len(call.params) : call.params[i].k \in Recognized(call.fn)

\* C3: checkCriteria of Company and of Job throws BadRequestError
\* ("Invalid search criteria.") whenever the criteria hold a key outside the
\* entity's recognized set, whatever the other keys are.
C3_UnrecognizedKeyRejected ==
  (call.fn \in CheckCriteriaFns /\ Returned /\ ~AllRecognized)
    => (out.error = "BadRequestError" /\ out.msg = "Invalid search criteria.")

\* an unrecognized key after a recognized one has been rejected by
\* Job.checkCriteria
C3_Witness ==
  /\ call.fn = "Job.checkCriteria"
  /\ Returned
  /\ Len(call.params) = 2
  /\ call.params[1] = [k |-> "title", v |-> Str(<<"j", "2">>)]
  /\ call.params[2].k = "coffeeMachines"
  /\ out.error = "BadRequestError"

\* C4 (as claimed): Job.checkCriteria throws BadRequestError for every
\* hasEquity value that is present and is neither "true" nor "false".
C4_EveryOtherFlagRejected ==
  (call.fn = "Job.checkCriteria" /\ Returned
     /\ HasKey(call.params, "hasEquity")
     /\ Get(call.params, "hasEquity") \notin {TrueLiteral, FalseLiteral})
    => out.error = "BadRequestError"

\* C5 (as claimed): in both definitions of Job.checkCriteria, criteria of
\* recognized keys whose hasEquity is "true" or "false" pass validation.
C5_TrueAndFalseAccepted ==
  (call.fn \in {"JobFirst.checkCriteria", "Job.checkCriteria"} /\ Returned
     /\ AllRecognized
     /\ Get(call.params, "hasEquity") \in {TrueLiteral, FalseLiteral})
    => out.error = "none"

\* a raw numeric bound: a number or a non-empty decimal string
IsDecimalRaw(v) ==
  \/ v.t = "number"
  \/ v.t = "string" /\ v.s # <<>> /\ DigitPrefix(v.s) = v.s

\* C6 (as claimed): with minEmployees and maxEmployees both present as
\* decimal strings or numbers, Company.checkCriteria throws exactly when
\* the lower bound is numerically greater than the upper bound.
C6_BoundsComparedNumerically ==
  LET lo == Get(call.params, "minEmployees")
      hi == Get(call.params, "maxEmployees")
  IN (call.fn = "Company.checkCriteria" /\ Returned /\ AllRecognized
        /\ HasKey(call.params, "minEmployees")
        /\ HasKey(call.params, "maxEmployees")
        /\ IsDecimalRaw(lo) /\ IsDecimalRaw(hi))
       => (out.error = "BadRequestError" <=> ToNumber(lo).n > ToNumber(hi).n)

\* the bind value the criterion behind a fragment calls for
ValueOf(frag, params) ==
  CASE frag.col = "title" ->
         Str(<<"%">> \o JsToString(Get(params, "title")) \o <<"%">>)
    [] frag.col = "name" ->
         Str(<<"%">> \o JsToString(Get(params, "name")) \o <<"%">>)
    [] frag.col = "salary" -> parseInt(Get(params, "minSalary"))
    [] frag.col = "num_employees" /\ frag.op = ">=" ->
         parseInt(Get(params, "minEmployees"))
    [] frag.col = "num_employees" /\ frag.op = "<=" ->
         parseInt(Get(params, "maxEmployees"))
    [] OTHER -> Str(<<"0">>)

\* C7: in every clause a filter builder returns, the i-th fragment carries
\* placeholder $i, there are as many values as fragments, and the i-th value
\* is the one of the i-th fragment's criterion.
C7_PlaceholdersAligned ==
  (call.fn \in BuilderFns /\ Returned)
    => LET parts == out.value.statement.parts
           values == out.value.values
       IN /\ out.error = "none"
          /\ Len(values) = Len(parts)
          /\ \A i \in 1..Len(parts) :
               /\ parts[i].ph = i
               /\ values[i] = ValueOf(parts[i], call.params)

\* a clause whose first criterion in the precedence is absent and whose
\* other two are present
C7_Witness ==
  /\ call.fn = "Job.createSearchSqlStatement"
  /\ Returned
  /\ ~HasKey(call.params, "title")
  /\ Len(out.value.statement.parts) = 2
  /\ out.value.statement.parts[2].col = "equity"
  /\ out.value.values[1] = Num(2)

\* the place of a fragment in its entity's precedence
Rank(frag) ==
  CASE frag.col = "title" -> 1
    [] frag.col = "salary" -> 2
    [] frag.col = "equity" -> 3
    [] frag.col = "num_employees" /\ frag.op = ">=" -> 1
    [] frag.col = "num_employees" /\ frag.op = "<=" -> 2
    [] OTHER -> 3

\* C8: the fragments of a clause follow the entity's precedence (title,
\* minSalary, hasEquity; minEmployees, maxEmployees, name) whatever the order
\* of the keys in the criteria.
C8_FixedPrecedence ==
  (call.fn \in BuilderFns /\ Returned)
    => LET parts == out.value.statement.parts
       IN /\ out.value.statement.sep = " AND "
          /\ \A i, j \in 1..Len(parts) :
               i < j => Rank(parts[i]) < Rank(parts[j])

\* criteria given as name, maxEmployees, minEmployees produce the three
\* fragments in the order minEmployees, maxEmployees, name
C8_Witness ==
  /\ call.fn = "Company.createSearchSqlStatement"
  /\ Returned
  /\ Keys(call.params) = <<"name", "maxEmployees", "minEmployees">>
  /\ Len(out.value.statement.parts) = 3
  /\ out.value.statement.parts[1] = Fragment("num_employees", ">=", 1)
  /\ out.value.statement.parts[3] = Fragment("name", "ILIKE", 3)

\* the criteria {minSalary: 2, title: "j2"}
C9_Criteria ==
  <<[k |-> "minSalary", v |-> Num(2)],
    [k |-> "title", v |-> Str(<<"j", "2">>)]>>

\* C9 (as claimed): Job.createSearchSqlStatement({minSalary: 2, title: "j2"})
\* returns two AND-joined fragments with the values [2, "%j2%"].
C9_ValuesSalaryFirst ==
  (call.fn \in JobBuilderFns /\ Returned /\ call.params = C9_Criteria)
    => /\ Len(out.value.statement.parts) = 2
       /\ out.value.values = <<Num(2), Str(<<"%", "j", "2", "%">>)>>

\* C9 (amended): Job.createSearchSqlStatement({minSalary: 2, title: "j2"})
\* returns the two fragments title ILIKE $1 and salary >= $2, joined by AND,
\* with the values ["%j2%", 2].
C9_ValuesTitleFirst ==
  (call.fn \in JobBuilderFns /\ Returned /\ call.params = C9_Criteria)
    => /\ out.value.statement =
            join(<<Fragment("title", "ILIKE", 1),
                   Fragment("salary", ">=", 2)>>, " AND ")
       /\ out.value.values = <<Str(<<"%", "j", "2", "%">>), Num(2)>>

\* the builder has run on {minSalary: 2, title: "j2"}
C9_Witness ==
  /\ call.fn = "Job.createSearchSqlStatement"
  /\ Returned
  /\ call.params = C9_Criteria
  /\ Len(out.value.values) = 2

\* C10 (as claimed): in both definitions of Job.createSearchSqlStatement,
\* hasEquity "true" adds the fragment equity > $n whose value is 0, and
\* hasEquity "false" adds no fragment and no value.
C10_EquityFragment ==
  (call.fn \in JobBuilderFns /\ Returned)
    => LET parts == out.value.statement.parts
           values == out.value.values
           equity == {i \in 1..Len(parts) : parts[i].col = "equity"}
           others == {i \in 1..Len(parts) : parts[i].col # "equity"}
           raw == Get(call.params, "hasEquity")
       IN /\ raw = TrueLiteral =>
               /\ Cardinality(equity) = 1
               /\ \A i \in equity :
                    /\ parts[i].op = ">"
                    /\ ToNumber(values[parts[i].ph]) = Num(0)
          /\ raw = FalseLiteral =>
               /\ equity = {}
               /\ Len(values) = Cardinality(others)

\* ------------------------------------------------------------------------
\* Properties of the partial update
\* ------------------------------------------------------------------------

\* C1: for every non-empty payload sqlForPartialUpdate returns one SET
\* fragment and one value per entry; the fragment of the i-th entry carries
\* placeholder $i and the i-th value is that entry's value.
C1_OneFragmentPerEntry ==
  (call.fn = "sqlForPartialUpdate" /\ Returned /\ Len(call.dataToUpdate) > 0)
    => LET data == call.dataToUpdate
           parts == out.value.setCols.parts
           values == out.value.values
       IN /\ out.error = "none"
          /\ Len(parts) = Len(data)
          /\ Len(values) = Len(data)
          /\ \A i \in 1..Len(data) :
               /\ parts[i].ph = i
               /\ parts[i].op = "="
               /\ values[parts[i].ph] = data[i].v
               /\ \/ parts[i].col = data[i].k
                  \/ /\ call.jsToSql.defined
                     /\ data[i].k \in DOMAIN call.jsToSql.cols
                     /\ parts[i].col = call.jsToSql.cols[data[i].k]

\* the call of helpers/sql.test.js has returned
\* {setCols: '"first_name"=$1, "age"=$2', values: ['Aliya', 32]}
C1_Witness ==
  /\ call.fn = "sqlForPartialUpdate"
  /\ Returned
  /\ Keys(call.dataToUpdate) = <<"firstName", "age">>
  /\ out.error = "none"
  /\ out.value.setCols =
       join(<<Fragment("first_name", "=", 1), Fragment("age", "=", 2)>>, ", ")
  /\ out.value.values = <<Str(<<"A", "l", "i", "y", "a">>), Num(32)>>

UpdateFns == {"Company.update", "Job.update", "User.update"}

\* C2: sqlForPartialUpdate throws BadRequestError on an empty payload under
\* every field map, and a call of Company.update, Job.update or User.update
\* with empty data ends in that error, sends no statement to the store and
\* leaves the store as it was.
C2_EmptyPayloadRejected ==
  [][/\ \A m \in FieldMaps :
          sqlForPartialUpdate(<<>>, m).error = "BadRequestError"
     /\ (call'.fn \in UpdateFns /\ call'.data = <<>>)
          => (out'.error = "BadRequestError" /\ sent' = <<>> /\ db' = db)]_vars

\* Job.update of a stored job with empty data has been rejected, after
\* earlier updates changed the store
C2_Witness ==
  /\ call.fn = "Job.update"
  /\ call.key = Num(1)
  /\ call.data = <<>>
  /\ out.error = "BadRequestError"
  /\ db # SeedDb

\* ------------------------------------------------------------------------
\* Properties of Company.filter and Job.filter (checked under FilterSpec)
\* ------------------------------------------------------------------------

FilterFns == {"Company.filter", "Job.filter"}

\* the recognized criterion names of the entity a filter belongs to
FilterKeys ==
  IF call.fn = "Company.filter" THEN {"name", "minEmployees", "maxEmployees"}
  ELSE {"title", "minSalary", "hasEquity"}

\* the three ways criteria are invalid: a key outside the recognized set,
\* a lower bound numerically above the upper bound, a flag that is neither
\* "true" nor "false"
UnrecognizedKey ==
  \E i \in 1..Len(call.params) : call.params[i].k \notin FilterKeys

InconsistentBounds ==
  LET lo == Get(call.params, "minEmployees")
      hi == Get(call.params, "maxEmployees")
  IN /\ HasKey(call.params, "minEmployees")
     /\ HasKey(call.params, "maxEmployees")
     /\ IsDecimalRaw(lo) /\ IsDecimalRaw(hi)
     /\ ToNumber(lo).n > ToNumber(hi).n

MalformedFlag ==
  /\ HasKey(call.params, "hasEquity")
  /\ Get(call.params, "hasEquity") \notin {TrueLiteral, FalseLiteral}

InvalidCriteria == UnrecognizedKey \/ InconsistentBounds \/ MalformedFlag

\* C11 (as claimed): a call of Company.filter or Job.filter with invalid
\* criteria (unrecognized key, inconsistent bounds, malformed flag) ends in
\* BadRequestError and sends no query to the store.
C11_InvalidCriteriaNeverQueried ==
  (call.fn \in FilterFns /\ Returned /\ InvalidCriteria)
    => (out.error = "BadRequestError" /\ sent = <<>>)

\* C12 (as claimed): no query sent by Company.filter or Job.filter has an
\* empty WHERE predicate.
C12_NoEmptyWhere ==
  (call.fn \in FilterFns /\ Returned)
    => \A i \in 1..Len(sent) : sent[i].where.parts # <<>>

\* text contains sub, without regard to case
ContainsIgnoringCase(text, sub) ==
  \E i \in 1..(Len(text) + 1) :
    /\ i + Len(sub) - 1 <= Len(text)
    /\ \A j \in 1..Len(sub) : Lower(text[i + j - 1]) = Lower(sub[j])

\* every numeric bound supplied is a number or a decimal string
NumericBoundsDecimal ==
  \A i \in 1..Len(call.params) :
    call.params[i].k \in {"minSalary", "minEmployees", "maxEmployees"}
      => IsDecimalRaw(call.params[i].v)

\* a stored row satisfies every criterion the call supplies
Satisfies(row) ==
  LET Supplied(key) == HasKey(call.params, key)
      Raw(key) == Get(call.params, key)
  IN IF call.fn = "Company.filter"
     THEN /\ Supplied("minEmployees") =>
               /\ row.num_employees.t = "number"
               /\ row.num_employees.n >= ToNumber(Raw("minEmployees")).n
          /\ Supplied("maxEmployees") =>
               /\ row.num_employees.t = "number"
               /\ row.num_employees.n <= ToNumber(Raw("maxEmployees")).n
          /\ Supplied("name") =>
               ContainsIgnoringCase(row.name.s, JsToString(Raw("name")))
     ELSE /\ Supplied("minSalary") =>
               /\ row.salary.t = "number"
               /\ row.salary.n >= ToNumber(Raw("minSalary")).n
          /\ Supplied("title") =>
               ContainsIgnoringCase(row.title.s, JsToString(Raw("title")))
          /\ Raw("hasEquity") = TrueLiteral =>
               /\ row.equity.t # "null"
               /\ SqlNumeric(row.equity) > 0

\* C14 (as claimed): for valid criteria Company.filter and Job.filter
\* return exactly the stored rows that satisfy every supplied criterion.
C14_ExactlyTheMatchingRows ==
  (call.fn \in FilterFns /\ Returned /\ ~InvalidCriteria
     /\ NumericBoundsDecimal)
    => /\ out.error = "none"
       /\ LET table == IF call.fn = "Company.filter" THEN db.companies
                       ELSE db.jobs
              columns == IF call.fn = "Company.filter" THEN CompanyColumns
                         ELSE JobColumns
          IN out.value =
               Rows({Project(table[k], columns) :
                       k \in {r \in DOMAIN table : Satisfies(table[r])}})

\* ------------------------------------------------------------------------
\* Properties of the update methods (checked under Spec)
\* ------------------------------------------------------------------------

\* the column a payload key of an update method is stored in
CallSiteColumn(fn, key) ==
  CASE fn = "Company.update" /\ key = "numEmployees" -> "num_employees"
    [] fn = "Company.update" /\ key = "logoUrl" -> "logo_url"
    [] fn = "User.update" /\ key = "firstName" -> "first_name"
    [] fn = "User.update" /\ key = "lastName" -> "last_name"
    [] fn = "User.update" /\ key = "isAdmin" -> "is_admin"
    [] OTHER -> key

\* the builder names the mapped column for a mapped key and the key itself
\* for an unmapped one, under every field map and under none
C13_BuilderColumns ==
  \A data \in BuilderPayloads \ {<<>>}, m \in FieldMaps :
    LET cols == sqlForPartialUpdate(data, m).value.setCols.parts
    IN /\ Len(cols) = Len(data)
       /\ \A i \in 1..Len(data) :
            cols[i].col = IF m.defined /\ data[i].k \in DOMAIN m.cols
                          THEN m.cols[data[i].k]
                          ELSE data[i].k

\* C13: the builder emits a mapped key under its mapped column and an
\* unmapped key under its own name, and so does the UPDATE statement each
\* of Company.update, User.update and Job.update sends: Job.update, which
\* passes no field map, names every payload key as the column.
C13_UnmappedKeysPassThrough ==
  /\ C13_BuilderColumns
  /\ (call.fn \in UpdateFns /\ sent # <<>>)
       => /\ Len(sent[1].set.parts) = Len(call.data)
          /\ \A i \in 1..Len(call.data) :
               sent[1].set.parts[i].col
                 = CallSiteColumn(call.fn, call.data[i].k)

\* Company.update has sent an UPDATE for a payload with a mapped and an
\* unmapped key
C13_Witness ==
  /\ call.fn = "Company.update"
  /\ HasKey(call.data, "numEmployees")
  /\ HasKey(call.data, "name")
  /\ sent # <<>>
  /\ out.error = "none"

\* the table an update method writes
TableOf(fn) ==
  CASE fn = "Company.update" -> "companies"
    [] fn = "Job.update" -> "jobs"
    [] fn = "User.update" -> "users"

\* the value an update method stores for a payload entry: the password is
\* stored hashed
StoredValue(fn, entry) ==
  IF fn = "User.update" /\ entry.k = "password" THEN BcryptHash(entry.v)
  ELSE entry.v

\* C17: an update of an existing record that succeeds gives the columns
\* named in the payload the payload's values, an explicit null included,
\* and leaves the record's other columns and key, the other records of the
\* table and the other tables as they were.
C17_OnlyNamedFieldsChange ==
  [][(call'.fn \in UpdateFns /\ out'.error = "none")
       => LET fn == call'.fn
              data == call'.data
              t == TableOf(fn)
              Named(c) == \E i \in 1..Len(data) :
                            CallSiteColumn(fn, data[i].k) = c
          IN /\ \A other \in DOMAIN db \ {t} : db'[other] = db[other]
             /\ DOMAIN db'[t] = DOMAIN db[t]
             /\ call'.key \in DOMAIN db[t]
             /\ \A r \in DOMAIN db[t] \ {call'.key} : db'[t][r] = db[t][r]
             /\ \A c \in DOMAIN db[t][call'.key] :
                  IF Named(c)
                  THEN \E i \in 1..Len(data) :
                         /\ CallSiteColumn(fn, data[i].k) = c
                         /\ db'[t][call'.key][c] = StoredValue(fn, data[i])
                  ELSE db'[t][call'.key][c] = db[t][call'.key][c]]_vars

\* Job.update has set the salary of job 1 to null and nothing else, while
\* job 2 keeps the title an earlier update gave it
C17_Witness ==
  /\ call.fn = "Job.update"
  /\ call.key = Num(1)
  /\ call.data = <<[k |-> "salary", v |-> Null]>>
  /\ out.error = "none"
  /\ db.jobs[Num(1)].salary = Null
  /\ db.jobs[Num(1)].title = SeedDb.jobs[Num(1)].title
  /\ db.jobs[Num(2)].title = NewText

\* ------------------------------------------------------------------------
\* Properties of the record methods (checked under RecordSpec)
\* ------------------------------------------------------------------------

KeyedFns ==
  {"Company.get", "Company.update", "Company.remove",
   "Job.get", "Job.update", "Job.remove",
   "User.get", "User.update", "User.remove"}

\* the table a keyed method reads or writes
KeyedTable(fn) ==
  CASE fn \in {"Company.get", "Company.update", "Company.remove"}
         -> "companies"
    [] fn \in {"Job.get", "Job.update", "Job.remove"} -> "jobs"
    [] fn \in {"User.get", "User.update", "User.remove"} -> "users"

\* the call just made is a keyed one and no stored row had its key
AbsentKeyCall ==
  /\ call'.fn \in KeyedFns
  /\ call'.key \notin DOMAIN db[KeyedTable(call'.fn)]

DuplicateCall ==
  \/ call'.fn = "Company.create" /\ call'.key \in DOMAIN db.companies
  \/ call'.fn = "User.register" /\ call'.key \in DOMAIN db.users
  \/ call'.fn = "User.applyForJob" /\ call'.key \in DOMAIN db.applications

\* C16: Company.create with a stored handle, User.register with a stored
\* username and User.applyForJob with a stored (username, jobId) raise
\* BadRequestError and leave the store, the existing record included, as it
\* was; no INSERT is sent.
C16_DuplicateRejected ==
  [][DuplicateCall =>
       /\ out'.error = "BadRequestError"
       /\ db' = db
       /\ \A i \in 1..Len(sent') : sent'[i].verb # "INSERT"]_vars

\* User.applyForJob for an application that is stored has raised
\* BadRequestError
C16_Witness ==
  /\ call.fn = "User.applyForJob"
  /\ call.key \in DOMAIN db.applications
  /\ out.error = "BadRequestError"

\* C20 (as claimed): User.updateJobApplication of a stored application sets
\* the current_state of that application to newState, leaves every other
\* application and table as it was, and returns that application; when the
\* application is not stored it raises NotFoundError and changes nothing.
C20_OnlyThatApplicationUpdated ==
  [][call'.fn = "User.updateJobApplication" =>
       IF call'.key \in DOMAIN db.applications
       THEN /\ out'.error = "none"
            /\ out'.value = [username |-> call'.key[1],
                             jobId |-> call'.key[2],
                             currentState |-> call'.data]
            /\ db' = [db EXCEPT
                        !.applications[call'.key].current_state = call'.data]
       ELSE out'.error = "NotFoundError" /\ db' = db]_vars

\* ------------------------------------------------------------------------
\* The values bound for numeric bounds (checked under BuilderSpec)
\* ------------------------------------------------------------------------

\* the criteria of the call pass the validation of the call's entity
PassesValidation ==
  IF call.fn = "Company.createSearchSqlStatement"
  THEN Company_checkCriteria(call.params).error = "none"
  ELSE Job_checkCriteria(call.params).error = "none"

\* C19 (as claimed): when the criteria pass validation, the value a filter
\* builder binds for minSalary, minEmployees or maxEmployees is an integer,
\* the one parseInt gives for the raw value.
C19_NumericBoundsAreIntegers ==
  (call.fn \in {"Company.createSearchSqlStatement",
                "Job.createSearchSqlStatement"}
     /\ Returned /\ PassesValidation)
    => LET parts == out.value.statement.parts
           values == out.value.values
       IN \A i \in 1..Len(parts) :
            parts[i].col \in {"salary", "num_employees"}
              => /\ values[i].t = "number"
                 /\ values[i] = ValueOf(parts[i], call.params)

\* ------------------------------------------------------------------------
\* The fragments of present criteria (checked under BuilderSpec)
\* ------------------------------------------------------------------------

\* the criteria of the call that are present and are not the flag
PresentNonFlag ==
  {i \in 1..Len(call.params) :
     call.params[i].k \in {"name", "minEmployees", "maxEmployees",
                           "title", "minSalary"}}

\* C23 (as claimed): for criteria that pass validation a filter builder
\* returns one fragment and one value for every present criterion other
\* than the flag, whatever its raw value (the empty string and zero
\* included), and one more when hasEquity is "true".
C23_OneFragmentPerPresentCriterion ==
  (call.fn \in {"Company.createSearchSqlStatement",
                "Job.createSearchSqlStatement"}
     /\ Returned /\ PassesValidation)
    => LET expected ==
             Cardinality(PresentNonFlag)
               + IF Get(call.params, "hasEquity") = TrueLiteral THEN 1 ELSE 0
       IN /\ Len(out.value.statement.parts) = expected
          /\ Len(out.value.values) = expected

\* ------------------------------------------------------------------------
\* The placeholder of the record key (checked under Spec)
\* ------------------------------------------------------------------------

\* C24: the UPDATE statement Company.update, Job.update or User.update
\* sends for a payload of n entries has the SET placeholders $1..$n in the
\* payload's order, the key at $(n+1), and n+1 bind values: the payload's
\* values in order, then the key.
C24_KeyBoundAfterPayload ==
  (call.fn \in UpdateFns /\ sent # <<>>)
    => LET q == sent[1]
           n == Len(call.data)
       IN /\ Len(q.set.parts) = n
          /\ \A i \in 1..n :
               /\ q.set.parts[i].ph = i
               /\ q.values[i] = StoredValue(call.fn, call.data[i])
          /\ q.where.ph = n + 1
          /\ Len(q.values) = n + 1
          /\ q.values[n + 1] = call.key

\* User.update has sent an UPDATE for a payload of two entries
C24_Witness ==
  /\ call.fn = "User.update"
  /\ Len(call.data) = 2
  /\ sent # <<>>
  /\ sent[1].where.ph = 3
  /\ out.error = "none"

\* ------------------------------------------------------------------------
\* User.applyForJob (checked under RecordSpec)
\* ------------------------------------------------------------------------

\* the application User.applyForJob stores for a user and a job
NewApplication(username, id) ==
  [username |-> username, job_id |-> id, current_state |-> Applied]

ReachedInsert(p) ==
  \E i \in 1..Len(sent[p]) : sent[p][i].verb = "INSERT"

\* C21 (as claimed): of two calls of Company.create, User.register or
\* User.applyForJob with the same key, in any interleaving, at most one
\* passes the duplicate check and sends its INSERT, and when one has, the
\* other ends in BadRequestError.
C21_AtMostOnePassesTheCheck ==
  /\ Cardinality({p \in Callers : ReachedInsert(p)}) <= 1
  /\ \A p, q \in Callers :
       (p # q /\ ReachedInsert(p) /\ call[q].pc = "done")
         => out[q].error = "BadRequestError"

====
